---- MODULE Spec2Model ----
(***************************************************************************)
(* Model of utility.py of the Netatmo harvesting script:                   *)
(*   - get_ids: the station-discovery retry loop,                          *)
(*   - save_netatmo_data_to_csv / load_device_and_module_ids_from_csv,     *)
(*   - get_historical_measurements_batch with save_measurements_to_csv.    *)
(* Python strings are sequences of one-character strings, so that str(),   *)
(* the csv quoting and str.strip() are computed character by character.    *)
(* A dict is a sequence of [key, val] records in insertion order.          *)
(***************************************************************************)
EXTENDS Integers, Sequences, FiniteSets, TLC

VARIABLES
    ids_pc,         \* get_ids / station CSV script position
    ids,            \* get_ids: the local dict ids
    retry_count,    \* get_ids: the local retry_count
    n_requests,     \* requests.post calls issued by get_ids
    n_http,         \* upstream outcomes so far that were HTTP errors
    n_empty,        \* upstream outcomes so far that were 200 with an empty body
    response,       \* get_ids: the outcome of the latest request
    ids_result,     \* what get_ids returned
    csv_file,       \* station CSV: the lines of the file
    loaded,         \* what load_device_and_module_ids_from_csv returned
    batch_pc,       \* get_historical_measurements_batch: position
    date_begin,     \* the fetch cursor
    date_end,       \* the end of the requested range
    all_measurements, \* the in-memory accumulator
    meas_file,      \* the rows of <device>_<module>_measurements.csv
    n_fetch,        \* requests.get calls issued by the batch loop
    last_req,       \* the parameters of the latest request
    last_resp,      \* what the latest request came back with
    page_log,       \* the non-empty pages received, in request order
    batch_result    \* what get_historical_measurements_batch returned

ids_vars == <<ids_pc, ids, retry_count, n_requests, n_http, n_empty, response,
              ids_result, csv_file, loaded>>

batch_vars == <<batch_pc, date_begin, date_end, all_measurements, meas_file,
                n_fetch, last_req, last_resp, page_log, batch_result>>

vars == <<ids_vars, batch_vars>>

----------------------------------------------------------------------------
(* Bounds and sample data                                                  *)

MaxStations == 2

StationIds == { <<"7","0",":","e","e">>, <<"7","0",":","f","f">> }

M1 == <<"0","2",":","a">>
M2 == <<"0","2",":","b">>
M3 == <<"0","3",":","c">>

\* The "modules" lists an upstream station may carry.
ModuleLists == { <<>>, <<M1>>, <<M3>>, <<M1, M2>>, <<M3, M1>> }

\* place: with a city, without a city, or lacking the expected fields.
FullPlace == [location |-> << <<"0",".","1">>, <<"5","1",".","5">> >>,
              altitude |-> <<"3","5">>, has_city |-> TRUE,
              city |-> <<"A",","," ","B">>, ok |-> TRUE]
NoCityPlace == [FullPlace EXCEPT !.has_city = FALSE]
BadPlace == [FullPlace EXCEPT !.ok = FALSE]

Stations == [_id : StationIds, modules : ModuleLists,
             place : {FullPlace, NoCityPlace, BadPlace}]

RECURSIVE SeqsUpTo(_, _)
SeqsUpTo(S, n) ==
    IF n = 0 THEN { <<>> }
    ELSE LET shorter == SeqsUpTo(S, n - 1)
         IN  shorter \cup { Append(s, x) : s \in { t \in shorter : Len(t) = n - 1 }, x \in S }

Bodies == SeqsUpTo(Stations, MaxStations)

\* What one requests.post can come back with.
Outcomes ==
    { [kind |-> k, body |-> <<>>] : k \in {"http_error", "transport_error", "no_body"} }
    \cup { [kind |-> "ok", body |-> b] : b \in Bodies }

----------------------------------------------------------------------------
(* Strings                                                                 *)

Range(s) == { s[i] : i \in 1..Len(s) }

StartsWith(s, p) == Len(s) >= Len(p) /\ SubSeq(s, 1, Len(p)) = p

RECURSIVE Join(_, _)
\* sep.join(parts)
Join(parts, sep) ==
    IF parts = <<>> THEN <<>>
    ELSE IF Len(parts) = 1 THEN parts[1]
    ELSE parts[1] \o sep \o Join(Tail(parts), sep)

\* repr() of a str holding no quote and no backslash
ReprStr(s) == <<"'">> \o s \o <<"'">>

\* str() of a list of str
StrList(l) == <<"[">> \o Join([i \in 1..Len(l) |-> ReprStr(l[i])], <<",", " ">>) \o <<"]">>

RECURSIVE LStrip(_, _)
LStrip(s, chars) ==
    IF s # <<>> /\ s[1] \in chars THEN LStrip(Tail(s), chars) ELSE s

RECURSIVE RStrip(_, _)
RStrip(s, chars) ==
    IF s # <<>> /\ s[Len(s)] \in chars THEN RStrip(SubSeq(s, 1, Len(s) - 1), chars) ELSE s

\* str.strip(chars)
Strip(s, chars) == RStrip(LStrip(s, chars), chars)

----------------------------------------------------------------------------
(* csv.writer / csv.reader, excel dialect                                  *)

RECURSIVE DoubleQuotes(_)
DoubleQuotes(s) ==
    IF s = <<>> THEN <<>>
    ELSE (IF s[1] = "\"" THEN <<"\"", "\"">> ELSE <<s[1]>>) \o DoubleQuotes(Tail(s))

\* QUOTE_MINIMAL: a field is quoted when it holds the delimiter, the quote
\* character or a line break.
CsvField(s) ==
    IF Range(s) \cap {",", "\"", "\n", "\r"} # {}
    THEN <<"\"">> \o DoubleQuotes(s) \o <<"\"">>
    ELSE s

CsvLine(fields) == Join([i \in 1..Len(fields) |-> CsvField(fields[i])], <<",">>)

\* One character through the reader's automaton. mode is the reader's state:
\* at the start of a field, inside an unquoted field, inside a quoted field,
\* or just after a quote met inside a quoted field.
CsvStep(st, c) ==
    IF st.mode = "start_field" THEN
        IF c = "," THEN [st EXCEPT !.done = Append(@, <<>>)]
        ELSE IF c = "\"" THEN [st EXCEPT !.mode = "in_quoted"]
        ELSE [st EXCEPT !.mode = "in_field", !.cur = <<c>>]
    ELSE IF st.mode = "in_field" THEN
        IF c = ","
        THEN [mode |-> "start_field", cur |-> <<>>, done |-> Append(st.done, st.cur)]
        ELSE [st EXCEPT !.cur = Append(@, c)]
    ELSE IF st.mode = "in_quoted" THEN
        IF c = "\"" THEN [st EXCEPT !.mode = "quote_in_quoted"]
        ELSE [st EXCEPT !.cur = Append(@, c)]
    ELSE
        IF c = "\"" THEN [st EXCEPT !.mode = "in_quoted", !.cur = Append(@, c)]
        ELSE IF c = ","
        THEN [mode |-> "start_field", cur |-> <<>>, done |-> Append(st.done, st.cur)]
        ELSE [st EXCEPT !.mode = "in_field", !.cur = Append(@, c)]

CsvModes == {"start_field", "in_field", "in_quoted", "quote_in_quoted"}

RECURSIVE CsvScan(_, _, _, _)
\* The automaton run over line[lo..hi], left to right, from state st. The
\* range is halved and the state after the left half is looked at before the
\* right half is read, which keeps TLC's evaluation of a long line shallow.
CsvScan(st, line, lo, hi) ==
    IF lo > hi THEN st
    ELSE IF lo = hi THEN CsvStep(st, line[lo])
    ELSE LET mid  == (lo + hi) \div 2
             left == CsvScan(st, line, lo, mid)
         IN  IF left.mode \in CsvModes
             THEN CsvScan(left, line, mid + 1, hi)
             ELSE left

\* One line read as a row: the field being read when the line ends is saved.
CsvRow(line) ==
    LET end == CsvScan([mode |-> "start_field", cur |-> <<>>, done |-> <<>>],
                       line, 1, Len(line))
    IN  Append(end.done, end.cur)

----------------------------------------------------------------------------
(* get_ids                                                                 *)

MaxRetries == 5

DictKeys(d) == { d[i].key : i \in 1..Len(d) }

\* DictPut with a list's semantics: a repeated key is kept twice.
DictPutAppend(d, k, v) == Append(d, [key |-> k, val |-> v])

\* d[k] = v on a dict: replaces the value in place, or appends a new key.
DictPut(d, k, v) ==
    IF k \in DictKeys(d)
    THEN [i \in 1..Len(d) |-> IF d[i].key = k THEN [key |-> k, val |-> v] ELSE d[i]]
    ELSE Append(d, [key |-> k, val |-> v])

RainPrefix == <<"0","2",":">>

\* mod = [n for n in station['modules'] if n.startswith('02:')]
RainModules(modules) == SelectSeq(modules, LAMBDA n : StartsWith(n, RainPrefix))

NoCity == <<"n","o"," ","c","i","t","y">>

StationInfo(station) ==
    [module_name  |-> RainModules(station.modules),
     location     |-> station.place.location,
     altitude     |-> station.place.altitude,
     city         |-> IF station.place.has_city THEN station.place.city ELSE NoCity,
     full_modules |-> station.modules]

RECURSIVE CollectStations(_, _)
\* The for loop over data: the dict after the loop and whether a station lacking
\* the expected fields made it raise KeyError.
CollectStations(d, data) ==
    IF data = <<>> THEN [ids |-> d, raised |-> FALSE]
    ELSE IF ~data[1].place.ok THEN [ids |-> d, raised |-> TRUE]
    ELSE CollectStations(DictPut(d, data[1]._id, StationInfo(data[1])), Tail(data))

\* RetryOrGiveUp with the budget test off by one (<= for <).
RetryOrGiveUpOffByOne(rc) ==
    IF rc <= MaxRetries
    THEN [pc |-> "loop", retry_count |-> rc + 1]
    ELSE [pc |-> "returned", retry_count |-> rc]

\* Both except branches: count a retry, or give up with an empty mapping.
RetryOrGiveUp(rc) ==
    IF rc < MaxRetries
    THEN [pc |-> "loop", retry_count |-> rc + 1]
    ELSE [pc |-> "returned", retry_count |-> rc]

\* One pass of the while loop of get_ids.
GetIdsAttempt ==
    /\ ids_pc = "loop"
    /\ \E resp \in Outcomes :
        LET got == CollectStations(ids, resp.body)
            uncaught ==
                \/ resp.kind \in {"transport_error", "no_body"}
                \/ resp.kind = "ok" /\ got.raised
            failed ==
                \/ resp.kind = "http_error"
                \/ resp.kind = "ok" /\ ~got.raised /\ Len(got.ids) = 0
            after == RetryOrGiveUp(retry_count)
        IN  /\ response' = resp
            /\ n_requests' = n_requests + 1
            /\ n_http' = IF resp.kind = "http_error" THEN n_http + 1 ELSE n_http
            /\ n_empty' = IF resp.kind = "ok" /\ resp.body = <<>> THEN n_empty + 1 ELSE n_empty
            /\ ids' = IF resp.kind = "ok" THEN got.ids ELSE ids
            /\ IF uncaught THEN
                  /\ ids_pc' = "raised"
                  /\ UNCHANGED <<retry_count, ids_result>>
               ELSE IF failed THEN
                  /\ ids_pc' = after.pc
                  /\ retry_count' = after.retry_count
                  /\ ids_result' = <<>>
               ELSE
                  /\ ids_pc' = "returned"
                  /\ ids_result' = got.ids
                  /\ UNCHANGED retry_count
    /\ UNCHANGED <<csv_file, loaded>>
    /\ UNCHANGED batch_vars

----------------------------------------------------------------------------
(* Station CSV                                                             *)

StationHeader ==
    << <<"M","A","C","_","a","d","d","r","e","s","s">>,
       <<"m","o","d","u","l","e","_","n","a","m","e">>,
       <<"l","a","t","i","t","u","d","e">>,
       <<"l","o","n","g","i","t","u","d","e">>,
       <<"a","l","t","i","t","u","d","e">>,
       <<"c","i","t","y">>,
       <<"f","u","l","l","_","m","o","d","u","l","e","s">> >>

StationRow(entry) ==
    << entry.key, StrList(entry.val.module_name), entry.val.location[1],
       entry.val.location[2], entry.val.altitude, entry.val.city,
       StrList(entry.val.full_modules) >>

save_netatmo_data_to_csv(d) ==
    <<CsvLine(StationHeader)>> \o [i \in 1..Len(d) |-> CsvLine(StationRow(d[i]))]

StripChars == {"[", "]", "'"}

LoadRow(line) ==
    LET row == CsvRow(line) IN <<row[1], Strip(row[2], StripChars)>>

load_device_and_module_ids_from_csv(file) ==
    LET rows == Tail(file) IN [i \in 1..Len(rows) |-> LoadRow(rows[i])]

SaveStations ==
    /\ ids_pc = "returned"
    /\ csv_file' = save_netatmo_data_to_csv(ids_result)
    /\ ids_pc' = "saved"
    /\ UNCHANGED <<ids, retry_count, n_requests, n_http, n_empty, response, ids_result, loaded>>
    /\ UNCHANGED batch_vars

LoadStations ==
    /\ ids_pc = "saved"
    /\ loaded' = load_device_and_module_ids_from_csv(csv_file)
    /\ ids_pc' = "loaded"
    /\ UNCHANGED <<ids, retry_count, n_requests, n_http, n_empty, response, ids_result, csv_file>>
    /\ UNCHANGED batch_vars

IdsInit ==
    /\ ids_pc = "loop"
    /\ ids = <<>>
    /\ retry_count = 0
    /\ n_requests = 0
    /\ n_http = 0
    /\ n_empty = 0
    /\ response = [kind |-> "none", body |-> <<>>]
    /\ ids_result = <<>>
    /\ csv_file = <<>>
    /\ loaded = <<>>

----------------------------------------------------------------------------
(* Measurements: sample data                                               *)

\* 2023-01-15 00:00 UTC
T0 == 1673740800

\* The cap on the requests of one modelled call.
MaxFetches == 3

Step == 86400

\* Three consecutive days, and the day after them.
Times == { T0, T0 + Step, T0 + 2 * Step }

EndOfRange == T0 + 3 * Step

\* The j-th [temperature, humidity, pressure] sample of the entry starting at t.
DayOf(t) == (t - T0) \div Step

Sample(t, j) == << DayOf(t) * 10 + j, 50 + j, 1000 + DayOf(t) >>

\* Entries of one or two values, pages of one or two entries in any order.
Entries == { [beg_time |-> t, value |-> [j \in 1..n |-> Sample(t, j)]] :
             t \in Times, n \in 1..2 }

Pages == SeqsUpTo(Entries, 2) \ { <<>> }

\* A body whose only entry lacks the "beg_time" field.
NoBegTimePage == << [value |-> <<Sample(T0, 1)>>] >>

\* What one requests.get can come back with: a transport failure, a non-200
\* status, a 200 whose JSON has no "body", or a 200 with a body: empty, a page
\* of entries, or a page lacking the expected field.
FetchOutcomes ==
    { [kind |-> k, body |-> <<>>] : k \in {"transport_error", "status_error", "no_body"} }
    \cup { [kind |-> "ok", body |-> b] : b \in Pages \cup { <<>>, NoBegTimePage } }

FetchArgs == [device_id |-> <<"7","0",":","e","e">>, module_id |-> M1,
              scale |-> "1day", type |-> "Temperature,Humidity,Pressure", limit |-> 1024]

----------------------------------------------------------------------------
(* datetime.utcfromtimestamp(t).strftime('%Y%m%d%H%M')                      *)

\* The civil date of a day number counted from 1970-01-01.
CivilFromDays(days) ==
    LET z   == days + 719468
        era == z \div 146097
        doe == z - era * 146097
        yoe == (doe - (doe \div 1460) + (doe \div 36524) - (doe \div 146096)) \div 365
        doy == doe - (365 * yoe + (yoe \div 4) - (yoe \div 100))
        mp  == (5 * doy + 2) \div 153
        d   == doy - ((153 * mp + 2) \div 5) + 1
        m   == IF mp < 10 THEN mp + 3 ELSE mp - 9
        y   == yoe + era * 400 + (IF m <= 2 THEN 1 ELSE 0)
    IN  <<y, m, d>>

\* The fields of YYYYMMDDHHMM; the seconds are dropped.
FormatUtc(t) ==
    LET secs == t % 86400
    IN  CivilFromDays(t \div 86400) \o << secs \div 3600, (secs % 3600) \div 60 >>

----------------------------------------------------------------------------
(* get_historical_measurements, save_measurements_to_csv                   *)

\* The return value of get_historical_measurements: None on a non-200 status,
\* else the decoded JSON.
get_historical_measurements(resp) ==
    IF resp.kind = "status_error" THEN [none |-> TRUE, has_body |-> FALSE, body |-> <<>>]
    ELSE [none |-> FALSE, has_body |-> resp.kind # "no_body", body |-> resp.body]

\* measurements is None or "body" not in measurements or not measurements["body"]
NoMoreData(measurements) ==
    measurements.none \/ ~measurements.has_body \/ measurements.body = <<>>

\* Whether measurements["body"][-1]["beg_time"] finds its key.
HasLastBegTime(body) == "beg_time" \in DOMAIN body[Len(body)]

\* writer.writeheader(): the row of the field names. A row of the file is a
\* record of its four cells, marked as the header row or a data row.
MeasHeader ==
    [header |-> TRUE, acquisition_time |-> "acquisition_time",
     temperature |-> "temperature", humidity |-> "humidity", pressure |-> "pressure"]

RECURSIVE EntryRows(_, _)
\* The inner for loop: one row per value, the running acquisition_time moved on
\* by step_time after each.
EntryRows(values, acquisition_time) ==
    IF values = <<>> THEN <<>>
    ELSE << [header |-> FALSE,
             acquisition_time |-> FormatUtc(acquisition_time),
             temperature |-> values[1][1],
             humidity |-> values[1][2],
             pressure |-> values[1][3]] >>
         \o EntryRows(Tail(values), acquisition_time + Step)

RECURSIVE BodyRows(_, _)
\* The outer for loop: acquisition_time is set once, before the loop, and runs
\* on across the entries.
BodyRows(body, acquisition_time) ==
    IF body = <<>> THEN <<>>
    ELSE EntryRows(body[1].value, acquisition_time)
         \o BodyRows(Tail(body), acquisition_time + Len(body[1].value) * Step)

\* HeaderRows without the test of the file's size.
HeaderRowsAlways(file) == <<MeasHeader>>

\* if csvfile.tell() == 0: writer.writeheader()
HeaderRows(file) == IF file = <<>> THEN <<MeasHeader>> ELSE <<>>

save_measurements_to_csv(file, body) ==
    file \o HeaderRows(file) \o BodyRows(body, body[1].beg_time)

----------------------------------------------------------------------------
(* get_historical_measurements_batch                                       *)

\* Extend keeping the latest page only.
ExtendReplacing(all, body) == body

\* all_measurements.extend(measurements["body"])
Extend(all, body) == all \o body

\* NextCursor taken from the first entry of the page instead of the last.
NextCursorFirstEntry(body) == body[1].beg_time + Step

\* date_begin = last_timestamp + 86400
NextCursor(body) == body[Len(body)].beg_time + Step

\* Whether a pass given resp gets past the break and the read of last_timestamp.
PageAccepted(resp) ==
    /\ resp.kind # "transport_error"
    /\ ~NoMoreData(get_historical_measurements(resp))
    /\ HasLastBegTime(resp.body)

\* The request, the test of its answer and the cursor move of one pass of the
\* while loop, followed by the next evaluation of the loop condition.
CursorStep(resp) ==
    LET measurements == get_historical_measurements(resp) IN
    /\ last_req' = FetchArgs @@
                   [date_begin |-> date_begin, date_end |-> date_end]
    /\ last_resp' = resp
    /\ UNCHANGED date_end
    /\ IF resp.kind = "transport_error" THEN
          batch_pc' = "raised" /\ UNCHANGED date_begin
       ELSE IF NoMoreData(measurements) THEN
          batch_pc' = "done" /\ UNCHANGED date_begin
       ELSE IF ~HasLastBegTime(measurements.body) THEN
          batch_pc' = "raised" /\ UNCHANGED date_begin
       ELSE
          /\ date_begin' = NextCursor(measurements.body)
          /\ batch_pc' = IF date_begin' < date_end THEN "loop" ELSE "done"

\* What one pass does to the accumulator and to the file.
StoreStep(resp) ==
    IF PageAccepted(resp) THEN
        /\ all_measurements' = Extend(all_measurements, resp.body)
        /\ meas_file' = save_measurements_to_csv(meas_file, resp.body)
        /\ page_log' = Append(page_log, resp.body)
    ELSE UNCHANGED <<all_measurements, meas_file, page_log>>

\* The call: the first evaluation of the loop condition.
BatchEnter ==
    /\ batch_pc = "start"
    /\ batch_pc' = IF date_begin < date_end THEN "loop" ELSE "done"
    /\ batch_result' = all_measurements
    /\ UNCHANGED <<date_begin, date_end, all_measurements, meas_file, n_fetch,
                   last_req, last_resp, page_log>>
    /\ UNCHANGED ids_vars

\* One pass of the while loop.
FetchIter ==
    /\ batch_pc = "loop"
    /\ n_fetch < MaxFetches
    /\ \E resp \in FetchOutcomes :
        /\ CursorStep(resp)
        /\ StoreStep(resp)
    /\ n_fetch' = n_fetch + 1
    /\ batch_result' = all_measurements'
    /\ UNCHANGED ids_vars

\* One pass of the while loop, seen on the cursor alone: the accumulator, the
\* file and the request count, which grow without bound, are left out.
FetchIterCursor ==
    /\ batch_pc = "loop"
    /\ \E resp \in FetchOutcomes : CursorStep(resp)
    /\ UNCHANGED <<all_measurements, meas_file, n_fetch, page_log, batch_result>>
    /\ UNCHANGED ids_vars

NoRequest == [kind |-> "none", body |-> <<>>]

BatchInit ==
    /\ batch_pc = "start"
    /\ date_begin \in Times
    /\ date_end \in Times \cup { EndOfRange }
    /\ all_measurements = <<>>
    /\ meas_file = <<>>
    /\ n_fetch = 0
    /\ last_req = <<>>
    /\ last_resp = NoRequest
    /\ page_log = <<>>
    /\ batch_result = <<>>

BatchParked ==
    /\ batch_pc = "idle"
    /\ date_begin = T0
    /\ date_end = T0
    /\ all_measurements = <<>>
    /\ meas_file = <<>>
    /\ n_fetch = 0
    /\ last_req = <<>>
    /\ last_resp = NoRequest
    /\ page_log = <<>>
    /\ batch_result = <<>>

IdsParked ==
    /\ ids_pc = "idle"
    /\ ids = <<>>
    /\ retry_count = 0
    /\ n_requests = 0
    /\ n_http = 0
    /\ n_empty = 0
    /\ response = NoRequest
    /\ ids_result = <<>>
    /\ csv_file = <<>>
    /\ loaded = <<>>

----------------------------------------------------------------------------
(* Specifications                                                          *)

IdsNext == GetIdsAttempt \/ SaveStations \/ LoadStations

\* Station discovery, then the station CSV written and read back.
InitIds == IdsInit /\ BatchParked

SpecIds == InitIds /\ [][IdsNext]_vars

BatchNext == BatchEnter \/ FetchIter

\* One call of get_historical_measurements_batch, at most MaxFetches requests.
InitBatch == IdsParked /\ BatchInit

SpecBatch == InitBatch /\ [][BatchNext]_vars

CursorNext == BatchEnter \/ FetchIterCursor

\* The same call seen on its cursor, with no bound on the requests; the loop
\* is sequential code, so a pass that can run does run.
SpecCursor == InitBatch /\ [][CursorNext]_vars /\ WF_vars(CursorNext)

----------------------------------------------------------------------------
(* Properties of get_ids and of the station CSV, checked under SpecIds     *)

IdsReturned == ids_pc \in {"returned", "saved", "loaded"}

BodyIds(body) == { body[i]._id : i \in 1..Len(body) }

WellFormed(body) == \A i \in 1..Len(body) : body[i].place.ok

C2_FirstNonEmptyResponseDecides ==
    (response.kind = "ok" /\ response.body # <<>> /\ WellFormed(response.body)) =>
        /\ IdsReturned
        /\ ~ENABLED GetIdsAttempt
        /\ DictKeys(ids_result) = BodyIds(response.body)
        /\ Len(ids_result) = Cardinality(BodyIds(response.body))

C2_ReturnedAfterFailures ==
    /\ ids_pc = "returned"
    /\ n_requests = 3
    /\ n_http = 1
    /\ n_empty = 1
    /\ Len(response.body) = 2
    /\ response.body[1]._id = response.body[2]._id
    /\ Len(ids_result) = 1

\* C7: no failure of get_ids or of get_historical_measurements_batch reaches
\* the caller as an exception: neither call ever ends by raising.
C7_NoExceptionEscapes == ids_pc # "raised" /\ batch_pc # "raised"

\* C9: the station CSV read back gives, per station in order, the station
\* identifier and a module identifier of the module_name list that was written.
C9_StationCsvRoundTrip ==
    ids_pc = "loaded" =>
        /\ Len(loaded) = Len(ids_result)
        /\ \A i \in 1..Len(loaded) :
              /\ loaded[i][1] = ids_result[i].key
              /\ loaded[i][2] \in Range(ids_result[i].val.module_name)

----------------------------------------------------------------------------
(* Properties of get_historical_measurements_batch, checked under          *)
(* SpecBatch (C4 under SpecCursor)                                         *)

RECURSIVE Concat(_)
Concat(pages) == IF pages = <<>> THEN <<>> ELSE pages[1] \o Concat(Tail(pages))

LastBegTime(page) == page[Len(page)].beg_time

\* The latest answer is a non-200 status, has no body, or has an empty body.
LastAnswerFailed ==
    \/ last_resp.kind \in {"status_error", "no_body"}
    \/ last_resp.kind = "ok" /\ last_resp.body = <<>>

\* C3: the cursor date_begin never decreases over a pass of the loop.
C3_CursorNeverDecreases == [][date_begin' >= date_begin]_vars

\* C4: every call of get_historical_measurements_batch eventually ends.
C4_BatchTerminates == <>(batch_pc \in {"done", "raised"})

\* C5: when the k-th request is the first answered by a non-200 status, no
\* body or an empty body, the call ends there (no further request can be
\* issued) and returns the entries of pages 1..k-1 in request order.
C5_StopsOnFirstFailedPage ==
    LastAnswerFailed =>
        /\ batch_pc = "done"
        /\ ~ENABLED FetchIter
        /\ Len(page_log) = n_fetch - 1
        /\ batch_result = Concat(page_log)

C5_EmptyThirdPage ==
    /\ batch_pc = "done"
    /\ n_fetch = 3
    /\ last_resp.kind = "ok"
    /\ last_resp.body = <<>>
    /\ Len(page_log) = 2
    /\ Len(page_log[1]) = 2
    /\ batch_result = page_log[1] \o page_log[2]

\* The last beg_times of the pages received are T, T+86400, T+2*86400, ...
DailyPages ==
    \A i \in 1..Len(page_log) :
        LastBegTime(page_log[i]) = LastBegTime(page_log[1]) + (i - 1) * 86400

\* C6: each request after a non-empty page carries date_begin = that page's
\* last beg_time + 86400, with date_end and the other parameters as in the
\* call; and when every request was answered by a page, the pages' last
\* beg_times are T, T+86400, ... and T+(n-1)*86400 < date_end <= T+n*86400,
\* the loop issues exactly n requests.
C6_CursorFollowsLastPage ==
    /\ n_fetch >= 2 =>
          last_req = FetchArgs @@
                     [date_begin |-> LastBegTime(page_log[n_fetch - 1]) + 86400,
                      date_end |-> date_end]
    /\ (n_fetch >= 1 /\ Len(page_log) = n_fetch /\ DailyPages) =>
          \A n \in 1..(MaxFetches + 1) :
             LET T == LastBegTime(page_log[1]) IN
             (T + (n - 1) * 86400 < date_end /\ date_end <= T + n * 86400) =>
                 /\ n_fetch <= n
                 /\ (n_fetch = n <=> batch_pc = "done")
                 /\ (n_fetch < n => batch_pc = "loop")

C6_ThreeDailyPages ==
    /\ batch_pc = "done"
    /\ n_fetch = 3
    /\ Len(page_log) = 3
    /\ DailyPages
    /\ LastBegTime(page_log[1]) = T0
    /\ date_end = T0 + 3 * 86400

RECURSIVE ValueTriples(_)
\* The values of a list of entries, entry by entry, in order.
ValueTriples(entries) ==
    IF entries = <<>> THEN <<>> ELSE entries[1].value \o ValueTriples(Tail(entries))

RowValues(row) == <<row.temperature, row.humidity, row.pressure>>

\* C8: the file is empty before the first page is saved; from then on it
\* holds exactly one header row, as its first row, followed by one row per
\* value of every page accumulated so far, in fetch order.
C8_OneHeaderThenAllPages ==
    IF page_log = <<>> THEN meas_file = <<>>
    ELSE /\ meas_file[1].header
         /\ \A i \in 2..Len(meas_file) : ~meas_file[i].header
         /\ all_measurements = Concat(page_log)
         /\ [i \in 1..(Len(meas_file) - 1) |-> RowValues(meas_file[i + 1])]
                = ValueTriples(all_measurements)

C8_TwoPagesSaved ==
    /\ Len(page_log) = 2
    /\ Len(page_log[2]) = 2
    /\ Len(meas_file) >= 5

RECURSIVE EntryTimes(_, _)
\* The acquisition times of the values of one entry: beg_time + j * 86400.
EntryTimes(entry, j) ==
    IF j >= Len(entry.value) THEN <<>>
    ELSE <<FormatUtc(entry.beg_time + j * 86400)>> \o EntryTimes(entry, j + 1)

RECURSIVE OwnTimes(_)
OwnTimes(entries) ==
    IF entries = <<>> THEN <<>> ELSE EntryTimes(entries[1], 0) \o OwnTimes(Tail(entries))

\* C10: the acquisition time written for the j-th value of an entry is that
\* entry's own beg_time + j * 86400, for every entry of every page saved.
C10_AcquisitionTimePerEntry ==
    page_log # <<>> =>
        [i \in 1..(Len(meas_file) - 1) |-> meas_file[i + 1].acquisition_time]
            = OwnTimes(Concat(page_log))

====
